---- MODULE Spec2Model ----
(***************************************************************************)
(* Typeform -> MongoDB importer (src/web/main.js, importer part).          *)
(*                                                                         *)
(* Representation of JavaScript values:                                    *)
(*  - a string that the program concatenates, pattern-matches or stores    *)
(*    as a value is a sequence of one-character strings;                   *)
(*  - identifiers that are only compared or looked up (answer type tags,   *)
(*    field ids, choice ids, field titles) are TLA+ strings;               *)
(*  - a value that may be null/undefined is a sequence of length <= 1:     *)
(*    None for null/undefined, Some(x) for x.                              *)
(***************************************************************************)
EXTENDS Integers, Sequences, FiniteSets, TLC

VARIABLES pc, formId, fieldMap, resp, sig, docs, ans, meta, label,
          mode, store, before, result, imported

\* one run of main(): its position, configuration, the forms API it talks
\* to, its locals, the store connection, the requests it has outstanding,
\* the history of its I/O, the pending exception and the exit status
VARIABLES rpc, cfg, api, forms, fi, responses, ri, page, all, di, totals,
          client, formsStore, pending, log, fetched, err, exit

\* the environment variables and the command line the process was started with
VARIABLES env, argv

runVars == <<rpc, cfg, api, forms, fi, responses, ri, page, all, di, totals,
             client, formsStore, pending, log, fetched, err, exit, env, argv>>

vars == <<pc, formId, fieldMap, resp, sig, docs, ans, meta, label,
          mode, store, before, result, imported, runVars>>

-----------------------------------------------------------------------------
(* Optional values and JavaScript truthiness                               *)

None == <<>>

Some(x) == <<x>>

\* truthiness of a nullable character-sequence string: not null, not ""
Truthy(o) == o # None /\ o[1] # <<>>

\* truthiness of a nullable identifier
TruthyId(o) == o # None /\ o[1] # ""

\* a ?? b
Coalesce(a, b) == IF a # None THEN a ELSE b

\* a || b on nullable strings; the result of a falsy chain is its last operand
OrElse(a, b) == IF Truthy(a) THEN a ELSE b

-----------------------------------------------------------------------------
(* String conversions                                                      *)

DigitChars == <<"0", "1", "2", "3", "4", "5", "6", "7", "8", "9">>

RECURSIVE NatToStr(_)
NatToStr(n) ==
    IF n < 10 THEN <<DigitChars[n + 1]>>
    ELSE NatToStr(n \div 10) \o <<DigitChars[(n % 10) + 1]>>

\* String(ans.number) for integers
NumberToString(n) == IF n < 0 THEN <<"-">> \o NatToStr(0 - n) ELSE NatToStr(n)

\* String(ans.boolean)
BooleanToString(b) ==
    IF b THEN <<"t", "r", "u", "e">> ELSE <<"f", "a", "l", "s", "e">>

\* `${x}` of a nullable string inside a template literal: null renders "null"
TemplateStr(o) == IF o = None THEN <<"n", "u", "l", "l">> ELSE o[1]

\* one element of Array.prototype.join: null/undefined elements render ""
JoinElem(o) == IF o = None THEN <<>> ELSE o[1]

RECURSIVE JoinLabels(_)
JoinLabels(ls) ==
    IF ls = <<>> THEN <<>>
    ELSE IF Len(ls) = 1 THEN JoinElem(ls[1])
    ELSE JoinElem(ls[1]) \o <<",", " ">> \o JoinLabels(Tail(ls))

-----------------------------------------------------------------------------
(* CHIFFRE_REGEX = /^\d{5}[A-Za-z]{1}\d{8}$/                               *)

ChiffreLead == 5
ChiffreMid == 1
ChiffreTail == 8

IsDigit(c) == c \in {"0", "1", "2", "3", "4", "5", "6", "7", "8", "9"}

IsLetter(c) ==
    c \in {"a", "b", "c", "d", "e", "f", "g", "h", "i", "j", "k", "l", "m",
           "n", "o", "p", "q", "r", "s", "t", "u", "v", "w", "x", "y", "z",
           "A", "B", "C", "D", "E", "F", "G", "H", "I", "J", "K", "L", "M",
           "N", "O", "P", "Q", "R", "S", "T", "U", "V", "W", "X", "Y", "Z"}

CHIFFRE_REGEX(s) ==
    /\ Len(s) = ChiffreLead + ChiffreMid + ChiffreTail
    /\ \A i \in 1..ChiffreLead : IsDigit(s[i])
    /\ \A i \in (ChiffreLead + 1)..(ChiffreLead + ChiffreMid) : IsLetter(s[i])
    /\ \A i \in (ChiffreLead + ChiffreMid + 1)..Len(s) : IsDigit(s[i])

-----------------------------------------------------------------------------
(* formatDate: submission timestamp -> calendar date in UTC                *)
(* A timestamp is [ok, day, hour, off]: ok = the text parses as a date,    *)
(* day = calendar day number written in the text, hour = its hour of day,  *)
(* off = its UTC offset in hours.                                          *)

formatDate(dateStr) ==
    IF dateStr = None THEN None
    ELSE IF ~dateStr[1].ok THEN None
    ELSE LET t == dateStr[1]
             h == t.hour - t.off
         IN Some(IF h < 0 THEN t.day - 1
                 ELSE IF h >= 24 THEN t.day + 1
                 ELSE t.day)

-----------------------------------------------------------------------------
(* fetchFormDefinition: raw field definitions -> field map                 *)

EmptyMap == [x \in {} |-> None]

MapSet(m, k, v) == [x \in (DOMAIN m) \cup {k} |-> IF x = k THEN v ELSE m[x]]

MapGet(m, k) == IF k \in DOMAIN m THEN Some(m[k]) ELSE None

RECURSIVE ChoiceTables(_, _, _, _)
ChoiceTables(cs, i, byId, byValue) ==
    IF i > Len(cs) THEN [byId |-> byId, byValue |-> byValue]
    ELSE LET c == cs[i]
             byId2 == IF TruthyId(c.id) THEN MapSet(byId, c.id[1], c.label)
                      ELSE byId
             byValue2 == IF Truthy(c.label)
                         THEN MapSet(byValue, c.label[1], c.label)
                         ELSE byValue
         IN ChoiceTables(cs, i + 1, byId2, byValue2)

FieldEntry(f) ==
    [title |-> f.title, id |-> f.id, type |-> f.type,
     choices |-> IF f.type \in {"multiple_choice", "dropdown"} /\ f.choices # None
                 THEN Some(ChoiceTables(f.choices[1], 1, EmptyMap, EmptyMap))
                 ELSE None]

RECURSIVE FieldMapFrom(_, _, _)
FieldMapFrom(fields, i, m) ==
    IF i > Len(fields) THEN m
    ELSE FieldMapFrom(fields, i + 1, MapSet(m, fields[i].id, FieldEntry(fields[i])))

fetchFormDefinition(fields) == FieldMapFrom(fields, 1, EmptyMap)

-----------------------------------------------------------------------------
(* extractEmailAndChiffre                                                  *)

\* Candidates with the single-choice label pushed first
Candidates_LabelFirst(a) ==
       (IF a.choice # None /\ Truthy(a.choice[1].label)
        THEN <<a.choice[1].label>> ELSE <<>>)
    \o (IF Truthy(a.text) THEN <<a.text>> ELSE <<>>)
    \o (IF Truthy(a.email) THEN <<a.email>> ELSE <<>>)
    \o (IF a.number # None THEN <<Some(NumberToString(a.number[1]))>> ELSE <<>>)
    \o (IF Truthy(a.date) THEN <<a.date>> ELSE <<>>)
    \o (IF a.choices # None /\ a.choices[1].labels # None
        THEN a.choices[1].labels[1] ELSE <<>>)

\* the textual candidates of one answer, in the order they are pushed
Candidates(a) ==
       (IF Truthy(a.text) THEN <<a.text>> ELSE <<>>)
    \o (IF Truthy(a.email) THEN <<a.email>> ELSE <<>>)
    \o (IF a.number # None THEN <<Some(NumberToString(a.number[1]))>> ELSE <<>>)
    \o (IF Truthy(a.date) THEN <<a.date>> ELSE <<>>)
    \o (IF a.choice # None /\ Truthy(a.choice[1].label)
        THEN <<a.choice[1].label>> ELSE <<>>)
    \o (IF a.choices # None /\ a.choices[1].labels # None
        THEN a.choices[1].labels[1] ELSE <<>>)

\* inner loop: the first candidate that is a string and matches the pattern
RECURSIVE FirstMatch(_, _)
FirstMatch(cands, i) ==
    IF i > Len(cands) THEN None
    ELSE IF cands[i] # None /\ CHIFFRE_REGEX(cands[i][1]) THEN cands[i]
    ELSE FirstMatch(cands, i + 1)

\* outer loop from answer i on, with the email captured so far
RECURSIVE ScanAnswers(_, _, _)
ScanAnswers(list, i, email) ==
    IF i > Len(list) THEN [email |-> email, chiffre |-> None]
    ELSE LET a == list[i]
             email2 == IF ~Truthy(email) /\ a.type = Some("email") /\ Truthy(a.email)
                       THEN a.email ELSE email
             chiffre == FirstMatch(Candidates(a), 1)
         IN IF Truthy(chiffre) THEN [email |-> email2, chiffre |-> chiffre]
            ELSE ScanAnswers(list, i + 1, email2)

extractEmailAndChiffre(answers) ==
    ScanAnswers(IF answers = None THEN <<>> ELSE answers[1], 1, None)

-----------------------------------------------------------------------------
(* answerValueToLabel                                                      *)

\* fieldMeta?.choices?.byId?.get(ans.choice.id)
LookupById(fieldMeta, cid) ==
    IF fieldMeta = None \/ cid = None THEN None
    ELSE IF fieldMeta[1].choices = None THEN None
    ELSE IF cid[1] \in DOMAIN fieldMeta[1].choices[1].byId
         THEN fieldMeta[1].choices[1].byId[cid[1]]
    ELSE None

\* answerValueToLabel testing ans.number and ans.boolean for truthiness
answerValueToLabel_Truthy(a, fieldMeta) ==
    IF a = None THEN None
    ELSE LET x == a[1] IN
         IF x.text # None THEN x.text
         ELSE IF x.email # None THEN x.email
         ELSE IF x.number # None /\ x.number[1] # 0
              THEN Some(NumberToString(x.number[1]))
         ELSE IF x.date # None THEN x.date
         ELSE IF x.boolean # None /\ x.boolean[1]
              THEN Some(BooleanToString(x.boolean[1]))
         ELSE IF x.url # None THEN x.url
         ELSE IF x.choice # None
              THEN LET l == OrElse(x.choice[1].label,
                              OrElse(LookupById(fieldMeta, x.choice[1].id),
                                     x.choice[1].other))
                   IN IF Truthy(l) THEN l ELSE None
         ELSE IF x.choices # None /\ x.choices[1].labels # None
              THEN Some(JoinLabels(x.choices[1].labels[1]))
         ELSE IF Truthy(x.file_url) THEN x.file_url
         ELSE None

answerValueToLabel(a, fieldMeta) ==
    IF a = None THEN None
    ELSE LET x == a[1] IN
         IF x.text # None THEN x.text
         ELSE IF x.email # None THEN x.email
         ELSE IF x.number # None THEN Some(NumberToString(x.number[1]))
         ELSE IF x.date # None THEN x.date
         ELSE IF x.boolean # None THEN Some(BooleanToString(x.boolean[1]))
         ELSE IF x.url # None THEN x.url
         ELSE IF x.choice # None
              THEN LET l == OrElse(x.choice[1].label,
                              OrElse(LookupById(fieldMeta, x.choice[1].id),
                                     x.choice[1].other))
                   IN IF Truthy(l) THEN l ELSE None
         ELSE IF x.choices # None /\ x.choices[1].labels # None
              THEN Some(JoinLabels(x.choices[1].labels[1]))
         ELSE IF Truthy(x.file_url) THEN x.file_url
         ELSE None

-----------------------------------------------------------------------------
(* buildAnswerDocs                                                         *)

\* ans.field?.id || ans.field_id || ans.field || null
\* ans.field is an object [kind "obj"] with an optional id, or a bare
\* string [kind "str"] whose text is in id.  The result is a reference
\* [kind, v]: a string id, or the field object itself (kind "obj").
FieldIdOf(a) ==
    IF a.field # None /\ a.field[1].kind = "obj" /\ TruthyId(a.field[1].id)
    THEN Some([kind |-> "str", v |-> a.field[1].id[1]])
    ELSE IF TruthyId(a.field_id) THEN Some([kind |-> "str", v |-> a.field_id[1]])
    ELSE IF a.field # None /\ a.field[1].kind = "obj"
         THEN Some([kind |-> "obj", v |-> ""])
    ELSE IF a.field # None /\ TruthyId(a.field[1].id)
         THEN Some([kind |-> "str", v |-> a.field[1].id[1]])
    ELSE None

\* fieldId ? fieldMap.get(fieldId) : undefined
FieldMetaOf(fm, fieldId) ==
    IF fieldId = None THEN None
    ELSE IF fieldId[1].kind = "str" THEN MapGet(fm, fieldId[1].v)
    ELSE None

Underscore == <<"_">>

\* DocId with the second slot filled by email || chiffre
DocId_EmailFirst(fid, chiffre, email, rid) ==
    fid \o Underscore \o TemplateStr(OrElse(email, chiffre)) \o Underscore
        \o TemplateStr(rid) \o Underscore \o TemplateStr(email)

\* `${formId}_${chiffre || email}_${rid}_${email}`
DocId(fid, chiffre, email, rid) ==
    fid \o Underscore \o TemplateStr(OrElse(chiffre, email)) \o Underscore
        \o TemplateStr(rid) \o Underscore \o TemplateStr(email)

\* BuildDoc recording the email only on the answer that carries it
BuildDoc_OwnEmail(fid, fm, rid, email, chiffre, datum, a, idx) ==
    LET fieldId == FieldIdOf(a)
        fieldMeta == FieldMetaOf(fm, fieldId)
    IN [id |-> DocId(fid, chiffre, email, rid),
        antwort |-> answerValueToLabel(Some(a), fieldMeta),
        chiffre |-> chiffre,
        datum |-> datum,
        email |-> IF a.type = Some("email") THEN email ELSE None,
        field_id |-> fieldId,
        form_id |-> fid,
        frage |-> IF fieldMeta # None /\ TruthyId(fieldMeta[1].title)
                  THEN fieldMeta[1].title ELSE None,
        idx |-> idx,
        response_id |-> rid]

\* the loop body: one document for the answer a at position idx
BuildDoc(fid, fm, rid, email, chiffre, datum, a, idx) ==
    LET fieldId == FieldIdOf(a)
        fieldMeta == FieldMetaOf(fm, fieldId)
    IN [id |-> DocId(fid, chiffre, email, rid),
        antwort |-> answerValueToLabel(Some(a), fieldMeta),
        chiffre |-> chiffre,
        datum |-> datum,
        email |-> email,
        field_id |-> fieldId,
        form_id |-> fid,
        frage |-> IF fieldMeta # None /\ TruthyId(fieldMeta[1].title)
                  THEN fieldMeta[1].title ELSE None,
        idx |-> idx,
        response_id |-> rid]

\* BuildFrom numbering the documents from 1
RECURSIVE BuildFrom_IndexFromOne(_, _, _, _, _, _, _, _)
BuildFrom_IndexFromOne(fid, fm, rid, email, chiffre, datum, list, i) ==
    IF i > Len(list) THEN <<>>
    ELSE <<BuildDoc(fid, fm, rid, email, chiffre, datum, list[i], i)>>
         \o BuildFrom_IndexFromOne(fid, fm, rid, email, chiffre, datum, list, i + 1)

RECURSIVE BuildFrom(_, _, _, _, _, _, _, _)
BuildFrom(fid, fm, rid, email, chiffre, datum, list, i) ==
    IF i > Len(list) THEN <<>>
    ELSE <<BuildDoc(fid, fm, rid, email, chiffre, datum, list[i], i - 1)>>
         \o BuildFrom(fid, fm, rid, email, chiffre, datum, list, i + 1)

\* responseItem?.response_id ?? responseItem?.token ?? null
RidOf(responseItem) ==
    IF responseItem = None THEN None
    ELSE Coalesce(responseItem[1].response_id, responseItem[1].token)

\* responseItem?.submitted_at ?? responseItem?.landed_at ?? null
SubmittedOf(responseItem) ==
    IF responseItem = None THEN None
    ELSE Coalesce(responseItem[1].submitted_at, responseItem[1].landed_at)

\* Array.isArray(responseItem?.answers) ? responseItem.answers : []
AnswerList(responseItem) ==
    IF responseItem = None THEN <<>>
    ELSE IF responseItem[1].answers = None THEN <<>>
    ELSE responseItem[1].answers[1]

buildAnswerDocs(fid, fm, responseItem) ==
    LET list == AnswerList(responseItem)
        s == extractEmailAndChiffre(Some(list))
    IN BuildFrom(fid, fm, RidOf(responseItem), s.email, s.chiffre,
                 formatDate(SubmittedOf(responseItem)), list, 1)

-----------------------------------------------------------------------------
(* upsertDocs and the answers collection                                   *)
(* The collection is the sequence of its documents in insertion order.     *)

\* { $set: d } applied to a stored document
SetFields(old, d) ==
    [f \in (DOMAIN old) \cup (DOMAIN d) |-> IF f \in DOMAIN d THEN d[f] ELSE old[f]]

MinOf(S) == CHOOSE i \in S : \A j \in S : i <= j

\* updateOne that inserts without looking for a stored document
updateOne_AlwaysInserts(st, d) ==
    [store |-> Append(st, d), upserted |-> 1, matched |-> 0, modified |-> 0]

\* updateOne that reports every matched document as modified
updateOne_MatchedIsModified(st, d) ==
    LET hits == {i \in 1..Len(st) : st[i].id = d.id /\ st[i].idx = d.idx}
    IN IF hits = {}
       THEN [store |-> Append(st, d), upserted |-> 1, matched |-> 0, modified |-> 0]
       ELSE LET i == MinOf(hits)
            IN [store |-> [st EXCEPT ![i] = SetFields(st[i], d)], upserted |-> 0,
                matched |-> 1, modified |-> 1]

\* collection.updateOne({id, idx}, {$set: d}, {upsert: true})
updateOne(st, d) ==
    LET hits == {i \in 1..Len(st) : st[i].id = d.id /\ st[i].idx = d.idx}
    IN IF hits = {}
       THEN [store |-> Append(st, d), upserted |-> 1, matched |-> 0, modified |-> 0]
       ELSE LET i == MinOf(hits)
                new == SetFields(st[i], d)
            IN [store |-> [st EXCEPT ![i] = new], upserted |-> 0, matched |-> 1,
                modified |-> IF new # st[i] THEN 1 ELSE 0]

\* the given operations applied one after the other, counters summed
\* ApplyOps that never counts an upsert (neither upsertedCount nor upsertedId seen)
RECURSIVE ApplyOps_NoUpserted(_, _, _)
ApplyOps_NoUpserted(acc, ops, i) ==
    IF i > Len(ops) THEN acc
    ELSE LET r == updateOne(acc.store, ops[i])
         IN ApplyOps_NoUpserted([store |-> r.store,
                                 upserted |-> acc.upserted,
                                 matched |-> acc.matched + r.matched,
                                 modified |-> acc.modified + r.modified], ops, i + 1)

RECURSIVE ApplyOps(_, _, _)
ApplyOps(acc, ops, i) ==
    IF i > Len(ops) THEN acc
    ELSE LET r == updateOne(acc.store, ops[i])
         IN ApplyOps([store |-> r.store,
                      upserted |-> acc.upserted + r.upserted,
                      matched |-> acc.matched + r.matched,
                      modified |-> acc.modified + r.modified], ops, i + 1)

ZeroCounts(st) == [store |-> st, upserted |-> 0, matched |-> 0, modified |-> 0]

\* WRITE_MODE === 'single': one updateOne per document, in batch order
upsertSingle(st, ds) == ApplyOps(ZeroCounts(st), ds, 1)

\* bulkWrite(ops, {ordered: false}): the server applies the operations in
\* the order given by the permutation p of their positions
upsertBulk(st, ds, p) == ApplyOps(ZeroCounts(st), [i \in 1..Len(ds) |-> ds[p[i]]], 1)

-----------------------------------------------------------------------------
(* Input catalogues                                                        *)

MaxAnswers == 2
MaxImports == 3

Hallo == <<"H", "a", "l", "l", "o">>
Malen == <<"M", "a", "l", "e", "n">>
Karate == <<"K", "a", "r", "a", "t", "e">>
MailAB == <<"a", "@", "b">>
MailCD == <<"c", "@", "d">>
UrlU == <<"u", ":", "/">>
DateD == <<"2", "0", "2", "5", "-", "0", "1", "-", "0", "2">>
\* "12345X67890123" and "00000a00000000" match the chiffre pattern
Chiffre1 == <<"1", "2", "3", "4", "5", "X", "6", "7", "8", "9", "0", "1", "2", "3">>
Chiffre2 == <<"0", "0", "0", "0", "0", "a", "0", "0", "0", "0", "0", "0", "0", "0">>
\* near misses: one digit short, and a chiffre with one character in front
Short13 == SubSeq(Chiffre1, 1, 13)
Long15 == <<"9">> \o Chiffre1

BlankAnswer ==
    [type |-> None, text |-> None, email |-> None, number |-> None,
     date |-> None, boolean |-> None, url |-> None, choice |-> None,
     choices |-> None, file_url |-> None, field |-> None, field_id |-> None]

FieldObj(id) == Some([kind |-> "obj", id |-> id])

FieldStr(id) == Some([kind |-> "str", id |-> Some(id)])

Choice(l, i, o) == Some([label |-> l, id |-> i, other |-> o])

Labels(ls) == Some([labels |-> Some(ls)])

\* raw field definitions of the two forms of the catalogue
FieldsF1 ==
    << [id |-> "fld1", title |-> Some("Q1"), type |-> "short_text", choices |-> None],
       [id |-> "fld2", title |-> Some("Q2"), type |-> "multiple_choice",
        choices |-> Some(<< [id |-> Some("c1"), label |-> Some(Malen)],
                            [id |-> Some("c2"), label |-> Some(Karate)],
                            [id |-> None, label |-> Some(Hallo)],
                            [id |-> Some("c3"), label |-> None] >>)],
       [id |-> "fld3", title |-> None, type |-> "email", choices |-> None] >>

FieldsF2 ==
    << [id |-> "fld2", title |-> Some(""), type |-> "dropdown",
        choices |-> Some(<< [id |-> Some("c1"), label |-> Some(Karate)] >>)],
       [id |-> "fld1", title |-> Some("Q1"), type |-> "rating",
        choices |-> Some(<< [id |-> Some("c1"), label |-> Some(Malen)] >>)],
       [id |-> "fld1", title |-> Some("Q1b"), type |-> "short_text", choices |-> None] >>

Forms ==
    { [id |-> <<"F", "1">>, fields |-> FieldsF1],
      [id |-> <<"F", "2">>, fields |-> FieldsF2] }

\* answers of the responses given to buildAnswerDocs
RespAnswers ==
    { [BlankAnswer EXCEPT !.type = Some("text"), !.text = Some(Hallo),
                          !.field = FieldObj(Some("fld1"))],
      [BlankAnswer EXCEPT !.type = Some("text"), !.text = Some(Chiffre1),
                          !.field_id = Some("fld1")],
      [BlankAnswer EXCEPT !.type = Some("email"), !.email = Some(MailAB),
                          !.field = FieldObj(Some("fld3"))],
      [BlankAnswer EXCEPT !.type = Some("email"), !.email = Some(MailCD),
                          !.field = FieldStr("fld3")],
      [BlankAnswer EXCEPT !.type = Some("email"), !.email = Some(<<>>)],
      [BlankAnswer EXCEPT !.type = Some("text"), !.email = Some(MailAB),
                          !.field = FieldObj(None)],
      [BlankAnswer EXCEPT !.type = Some("email"), !.email = Some(Chiffre2)],
      [BlankAnswer EXCEPT !.type = Some("number"), !.number = Some(12345)],
      [BlankAnswer EXCEPT !.type = Some("text"), !.text = Some(Short13)],
      [BlankAnswer EXCEPT !.type = Some("text"), !.text = Some(Long15)],
      [BlankAnswer EXCEPT !.type = Some("choice"),
                          !.choice = Choice(Some(Chiffre2), Some("c1"), None),
                          !.field = FieldObj(Some("fld2"))],
      [BlankAnswer EXCEPT !.type = Some("choice"),
                          !.choice = Choice(None, Some("c1"), None),
                          !.field = FieldObj(Some("fld2"))],
      [BlankAnswer EXCEPT !.type = Some("choices"),
                          !.choices = Labels(<<Some(Malen), Some(Chiffre1)>>)],
      [BlankAnswer EXCEPT !.type = Some("choices"),
                          !.choices = Labels(<<None, Some(Karate)>>)],
      [BlankAnswer EXCEPT !.text = Some(Chiffre1),
                          !.choice = Choice(Some(Chiffre2), None, None)],
      [BlankAnswer EXCEPT !.type = Some("date"), !.text = Some(Short13),
                          !.date = Some(Chiffre2)] }

RECURSIVE SeqsUpTo(_, _)
SeqsUpTo(S, n) ==
    IF n = 0 THEN {<<>>}
    ELSE LET shorter == SeqsUpTo(S, n - 1)
         IN shorter \cup {Append(q, x) : q \in shorter, x \in S}

Stamp(d, h, o) == Some([ok |-> TRUE, day |-> d, hour |-> h, off |-> o])

BadStamp == Some([ok |-> FALSE, day |-> 0, hour |-> 0, off |-> 0])

\* response_id / token / submitted_at / landed_at of the catalogue's responses
Envelopes ==
    { [response_id |-> Some(<<"R", "1">>), token |-> Some(<<"T", "1">>),
       submitted_at |-> Stamp(10, 0, 0), landed_at |-> Stamp(9, 0, 0)],
      [response_id |-> None, token |-> Some(<<"T", "1">>),
       submitted_at |-> None, landed_at |-> Stamp(10, 1, 2)],
      [response_id |-> None, token |-> None,
       submitted_at |-> BadStamp, landed_at |-> Stamp(10, 0, 0)] }

MkResponse(e, as) ==
    Some([response_id |-> e.response_id, token |-> e.token,
          submitted_at |-> e.submitted_at, landed_at |-> e.landed_at,
          answers |-> as])

Responses ==
    {None}
    \cup {MkResponse(e, None) : e \in Envelopes}
    \cup {MkResponse(e, Some(l)) : e \in Envelopes, l \in SeqsUpTo(RespAnswers, MaxAnswers)}

\* answers given to answerValueToLabel: every combination of shape fields
ChoiceOpts ==
    { None,
      Choice(Some(Hallo), Some("c1"), Some(Karate)),
      Choice(None, Some("c1"), Some(Karate)),
      Choice(Some(<<>>), Some("c3"), Some(Karate)),
      Choice(None, Some("zz"), None) }

ChoicesOpts ==
    { None, Labels(<<Some(Malen), Some(Karate)>>), Labels(<<>>),
      Some([labels |-> None]) }

NormAnswers ==
    { [BlankAnswer EXCEPT !.text = t, !.email = e, !.number = n, !.date = d,
                          !.boolean = b, !.url = u, !.choice = c,
                          !.choices = cs, !.file_url = f] :
        t \in {None, Some(<<>>), Some(Hallo)},
        e \in {None, Some(MailAB)},
        n \in {None, Some(0), Some(42)},
        d \in {None, Some(DateD)},
        b \in {None, Some(FALSE), Some(TRUE)},
        u \in {None, Some(UrlU)},
        c \in ChoiceOpts,
        cs \in ChoicesOpts,
        f \in {None, Some(<<>>), Some(UrlU)} }

NormMetas ==
    {None} \cup {MapGet(fetchFormDefinition(f.fields), k) :
                    f \in Forms, k \in {"fld1", "fld2"}}

\* the responses imported by the pipeline: form "F" or "G"; PA2 is PA1 with
\* the value of its second answer changed
PipeForms ==
    { [id |-> <<"F">>, fields |-> FieldsF1],
      [id |-> <<"G">>, fields |-> FieldsF1] }

PipeResponse(rid, as) ==
    Some([response_id |-> Some(rid), token |-> None,
          submitted_at |-> Stamp(10, 0, 0), landed_at |-> None,
          answers |-> Some(as)])

EmailAnswer(e) == [BlankAnswer EXCEPT !.type = Some("email"), !.email = Some(e)]

TextAnswer(t) ==
    [BlankAnswer EXCEPT !.type = Some("text"), !.text = Some(t),
                        !.field = FieldObj(Some("fld1"))]

PA1 == PipeResponse(<<"r">>, <<EmailAnswer(<<"x", "_", "x">>), TextAnswer(Malen)>>)
PA2 == PipeResponse(<<"r">>, <<EmailAnswer(<<"x", "_", "x">>), TextAnswer(Karate)>>)
PB == PipeResponse(<<"x", "_", "r", "_", "x">>, <<EmailAnswer(<<"x">>)>>)
PC == PipeResponse(<<"q">>, <<TextAnswer(Hallo)>>)
PD == PipeResponse(<<"s">>, <<>>)

PipeResponses == {PA1, PA2, PB, PC, PD}

Modes == {"bulk", "single"}

-----------------------------------------------------------------------------
(* State machine                                                           *)

NoSignals == [email |-> None, chiffre |-> None]

NoCounts == [upserted |-> 0, matched |-> 0, modified |-> 0]

NoConfig ==
    [DRY_RUN |-> FALSE, FORMS_LIMIT |-> None, RESPONSES_LIMIT |-> None,
     FORM_IDS |-> None, formsCollection |-> FALSE]

NoApi == [forms |-> <<>>, responses |-> <<>>]

NoEnv == [FORMS_LIMIT |-> None, RESPONSES_LIMIT |-> None, FORM_IDS |-> None,
          DRY_RUN |-> None]

NoTotals == [formDocs |-> 0, formUpserts |-> 0, formMatched |-> 0,
             formModified |-> 0, grandTotalDocs |-> 0, grandTotalUpserts |-> 0]

\* no run of main() is in progress
RunOff ==
    /\ rpc = "off" /\ cfg = NoConfig /\ api = NoApi
    /\ forms = <<>> /\ fi = 1 /\ responses = <<>> /\ ri = 1
    /\ page = 1 /\ all = <<>> /\ di = 1 /\ totals = NoTotals
    /\ client = "null" /\ formsStore = <<>> /\ pending = {} /\ log = <<>>
    /\ fetched = <<>> /\ err = None /\ exit = None
    /\ env = NoEnv /\ argv = <<>>

\* the store, its counters and the import history do not change
StoreUnchanged == UNCHANGED <<mode, store, before, result, imported, runVars>>

\* Specification of the pure functions: the input is drawn by the initial
\* state, either a response of a form or a single answer with field metadata
InitFn ==
    /\ mode = "bulk" /\ store = <<>> /\ before = <<>> /\ result = NoCounts
    /\ imported = <<>>
    /\ RunOff
    /\ sig = NoSignals /\ docs = <<>> /\ label = None
    /\ \/ /\ pc = "response"
          /\ \E f \in Forms : formId = f.id /\ fieldMap = fetchFormDefinition(f.fields)
          /\ resp \in Responses
          /\ ans = None /\ meta = None
       \/ /\ pc = "answer"
          /\ formId = <<>> /\ fieldMap = EmptyMap /\ resp = None
          /\ ans \in {None} \cup {Some(a) : a \in NormAnswers}
          /\ meta \in NormMetas

\* buildAnswerDocs(formId, fieldMap, resp)
BuildDocs ==
    /\ pc = "response"
    /\ docs' = buildAnswerDocs(formId, fieldMap, resp)
    /\ sig' = extractEmailAndChiffre(Some(AnswerList(resp)))
    /\ pc' = "built"
    /\ UNCHANGED <<formId, fieldMap, resp, ans, meta, label>>
    /\ StoreUnchanged

\* answerValueToLabel(ans, meta)
Normalize ==
    /\ pc = "answer"
    /\ label' = answerValueToLabel(ans, meta)
    /\ pc' = "labelled"
    /\ UNCHANGED <<formId, fieldMap, resp, sig, docs, ans, meta>>
    /\ StoreUnchanged

NextFn == BuildDocs \/ Normalize

SpecFn == InitFn /\ [][NextFn]_vars

\* Specification of the import: runs of the importer against one store
Init ==
    /\ pc = "idle"
    /\ mode \in Modes
    /\ store = <<>> /\ before = <<>> /\ result = NoCounts /\ imported = <<>>
    /\ RunOff
    /\ formId = <<>> /\ fieldMap = EmptyMap /\ resp = None
    /\ sig = NoSignals /\ docs = <<>>
    /\ ans = None /\ meta = None /\ label = None

\* a later run of the process, started with the other WRITE_MODE
NewRun ==
    /\ pc = "idle"
    /\ mode' \in Modes \ {mode}
    /\ UNCHANGED <<pc, formId, fieldMap, resp, sig, docs, ans, meta, label,
                   store, before, result, imported, runVars>>

\* main's loop over the responses of a form: the next response is built
NextResponse ==
    /\ pc = "idle"
    /\ Len(imported) < MaxImports
    /\ \E f \in PipeForms, r \in PipeResponses :
          /\ formId' = f.id
          /\ fieldMap' = fetchFormDefinition(f.fields)
          /\ resp' = r
          /\ docs' = buildAnswerDocs(f.id, fetchFormDefinition(f.fields), r)
          /\ sig' = extractEmailAndChiffre(Some(AnswerList(r)))
    /\ pc' = "built"
    /\ UNCHANGED <<ans, meta, label>>
    /\ StoreUnchanged

\* upsertDocs(collection, docs) returned r
Written(r) ==
    /\ before' = store
    /\ store' = r.store
    /\ result' = [upserted |-> r.upserted, matched |-> r.matched,
                  modified |-> r.modified]
    /\ imported' = Append(imported, [formId |-> formId, resp |-> resp, docs |-> docs])
    /\ pc' = "idle"
    /\ UNCHANGED <<formId, fieldMap, resp, sig, docs, ans, meta, label, mode,
                   runVars>>

UpsertEmpty ==
    /\ pc = "built"
    /\ docs = <<>>
    /\ Written(ZeroCounts(store))

UpsertSingle ==
    /\ pc = "built"
    /\ docs # <<>>
    /\ mode = "single"
    /\ Written(upsertSingle(store, docs))

UpsertBulk ==
    /\ pc = "built"
    /\ docs # <<>>
    /\ mode = "bulk"
    /\ \E p \in Permutations(1..Len(docs)) : Written(upsertBulk(store, docs, p))

upsertDocs == UpsertEmpty \/ UpsertSingle \/ UpsertBulk

Next == NewRun \/ NextResponse \/ upsertDocs

Spec == Init /\ [][Next]_vars

-----------------------------------------------------------------------------
(* Configuration from environment and command line, lines 205-231         *)

IsPrefix(pre, a) == Len(pre) <= Len(a) /\ SubSeq(a, 1, Len(pre)) = pre

\* the position of the first c in a, 0 if there is none
IndexOf(a, c) ==
    LET hits == {i \in 1..Len(a) : a[i] = c}
    IN IF hits = {} THEN 0 ELSE MinOf(hits)

\* getArg(name): supports --name=value and --name value
getArg(args, name) ==
    LET flag == <<"-", "-">> \o name
        hits == {i \in 1..Len(args) :
                    args[i] = flag \/ IsPrefix(flag \o <<"=">>, args[i])}
    IN IF hits = {} THEN None
       ELSE LET idx == MinOf(hits)
                entry == args[idx]
            IN IF IndexOf(entry, "=") > 0
               THEN Some(SubSeq(entry, IndexOf(entry, "=") + 1, Len(entry)))
               ELSE IF idx + 1 <= Len(args) THEN Some(args[idx + 1]) ELSE None

\* s.trim()
RECURSIVE trim(_)
trim(t) ==
    IF t = <<>> THEN t
    ELSE IF t[1] = " " THEN trim(Tail(t))
    ELSE IF t[Len(t)] = " " THEN trim(SubSeq(t, 1, Len(t) - 1))
    ELSE t

DigitValue(c) == CHOOSE d \in 0..9 : DigitChars[d + 1] = c

\* the value of the leading digits of t from position i on, None without one
RECURSIVE Digits(_, _, _)
Digits(t, i, val) ==
    IF i <= Len(t) /\ IsDigit(t[i])
    THEN Digits(t, i + 1, Some((IF val = None THEN 0 ELSE val[1] * 10) + DigitValue(t[i])))
    ELSE val

\* parseInt(val, 10): leading blanks, a sign, then digits; None for NaN
parseInt(val) ==
    IF val = None THEN None
    ELSE LET t == trim(val[1])
         IN IF t # <<>> /\ t[1] = "-"
            THEN (IF Digits(t, 2, None) = None THEN None
                  ELSE Some(0 - Digits(t, 2, None)[1]))
            ELSE IF t # <<>> /\ t[1] = "+" THEN Digits(t, 2, None)
            ELSE Digits(t, 1, None)

\* toInt(val, fallback): the integer, or the fallback for NaN
toInt(val, fallback) == IF parseInt(val) = None THEN fallback ELSE parseInt(val)

\* t.split(',')
RECURSIVE split(_)
split(t) ==
    IF IndexOf(t, ",") = 0 THEN <<t>>
    ELSE <<SubSeq(t, 1, IndexOf(t, ",") - 1)>>
            \o split(SubSeq(t, IndexOf(t, ",") + 1, Len(t)))

\* .map(s => s.trim()).filter(Boolean)
RECURSIVE trimmedNonEmpty(_)
trimmedNonEmpty(parts) ==
    IF parts = <<>> THEN <<>>
    ELSE (IF trim(parts[1]) = <<>> THEN <<>> ELSE <<trim(parts[1])>>)
            \o trimmedNonEmpty(Tail(parts))

UpperChars == <<"A", "B", "C", "D", "E", "F", "G", "H", "I", "J", "K", "L", "M", "N", "O", "P", "Q", "R", "S", "T", "U", "V", "W", "X", "Y", "Z">>
LowerChars == <<"a", "b", "c", "d", "e", "f", "g", "h", "i", "j", "k", "l", "m", "n", "o", "p", "q", "r", "s", "t", "u", "v", "w", "x", "y", "z">>

toLowerCase(t) ==
    [i \in 1..Len(t) |->
        IF \E j \in 1..Len(UpperChars) : UpperChars[j] = t[i]
        THEN LowerChars[CHOOSE j \in 1..Len(UpperChars) : UpperChars[j] = t[i]]
        ELSE t[i]]

\* a limit setting: toInt(process.env.X ?? getArg(flag), Infinity), with
\* None for Infinity
LimitValue(envValue, args, flag) == toInt(Coalesce(envValue, getArg(args, flag)), None)

\* FORM_IDS, lines 221-223: null, or the trimmed non-empty ids
FormIdsValue(envValue, args) ==
    LET raw == Coalesce(envValue, getArg(args, <<"f", "o", "r", "m", "-", "i", "d", "s">>))
    IN IF Truthy(raw) THEN Some(trimmedNonEmpty(split(raw[1]))) ELSE None

\* DRY_RUN, lines 224-231
DryRunValue(envValue, args) ==
    LET flagPresent == \E i \in 1..Len(args) : args[i] = <<"-", "-">> \o <<"d", "r", "y", "-", "r", "u", "n">>
        v == Coalesce(envValue, getArg(args, <<"d", "r", "y", "-", "r", "u", "n">>))
    IN IF flagPresent THEN TRUE
       ELSE IF v = None THEN FALSE
       ELSE toLowerCase(trim(v[1])) \in {<<"1">>, <<"t", "r", "u", "e">>, <<"y", "e", "s">>, <<"o", "n">>}

\* the flag names
FlagMaxForms == <<"m", "a", "x", "-", "f", "o", "r", "m", "s">>
FlagMaxResponses == <<"m", "a", "x", "-", "r", "e", "s", "p", "o", "n", "s", "e", "s">>

EnvValues ==
    {[FORMS_LIMIT |-> a, RESPONSES_LIMIT |-> b, FORM_IDS |-> c, DRY_RUN |-> d] :
        a \in {None, Some(<<"2">>), Some(<<>>)},
        b \in {None, Some(<<"1">>)},
        c \in {None, Some(<<"F", ",", " ", "G">>)},
        d \in {None, Some(<<" ", "T", "R", "U", "E">>)}}

ArgvValues ==
    { <<>>,
      << <<"-", "-", "m", "a", "x", "-", "f", "o", "r", "m", "s", "=", "1">> >>,
      << <<"-", "-", "m", "a", "x", "-", "f", "o", "r", "m", "s">>, <<"1">>, <<"-", "-", "m", "a", "x", "-", "r", "e", "s", "p", "o", "n", "s", "e", "s", "=", "5", "x">> >>,
      << <<"-", "-", "f", "o", "r", "m", "-", "i", "d", "s", "=", "G">>, <<"-", "-", "d", "r", "y", "-", "r", "u", "n">> >>,
      << <<"-", "-", "f", "o", "r", "m", "-", "i", "d", "s">>, <<"F", ",", ",", "G">>, <<"-", "-", "m", "a", "x", "-", "r", "e", "s", "p", "o", "n", "s", "e", "s">> >>,
      << <<"-", "-", "d", "r", "y", "-", "r", "u", "n", "=", "n", "o">>, <<"-", "-", "m", "a", "x", "-", "f", "o", "r", "m", "s", "=", "a", "b", "c">> >> }

InitConfig ==
    /\ pc = "config"
    /\ mode = "bulk"
    /\ store = <<>> /\ before = <<>> /\ result = NoCounts /\ imported = <<>>
    /\ formId = <<>> /\ fieldMap = EmptyMap /\ resp = None
    /\ sig = NoSignals /\ docs = <<>>
    /\ ans = None /\ meta = None /\ label = None
    /\ rpc = "config" /\ cfg = NoConfig /\ api = NoApi
    /\ forms = <<>> /\ fi = 1 /\ responses = <<>> /\ ri = 1
    /\ page = 1 /\ all = <<>> /\ di = 1 /\ totals = NoTotals
    /\ client = "null" /\ formsStore = <<>> /\ pending = {} /\ log = <<>>
    /\ fetched = <<>> /\ err = None /\ exit = None
    /\ env \in EnvValues
    /\ argv \in ArgvValues

\* the module-level constants are evaluated when the script is loaded
LoadConfig ==
    /\ rpc = "config"
    /\ cfg' = [cfg EXCEPT
                 !.FORMS_LIMIT = LimitValue(env.FORMS_LIMIT, argv, FlagMaxForms),
                 !.RESPONSES_LIMIT = LimitValue(env.RESPONSES_LIMIT, argv, FlagMaxResponses),
                 !.FORM_IDS = FormIdsValue(env.FORM_IDS, argv),
                 !.DRY_RUN = DryRunValue(env.DRY_RUN, argv)]
    /\ rpc' = "loaded"
    /\ UNCHANGED <<pc, formId, fieldMap, resp, sig, docs, ans, meta, label,
                   mode, store, before, result, imported,
                   api, forms, fi, responses, ri, page, all, di, totals,
                   client, formsStore, pending, log, fetched, err, exit,
                   env, argv>>

NextConfig == LoadConfig

SpecConfig == InitConfig /\ [][NextConfig]_vars

-----------------------------------------------------------------------------
(* One run of main()                                                       *)

\* an I/O request: a forms-API request or a store operation
Req(op, form, n) == [op |-> op, form |-> form, n |-> n]

ApiOps == {"listForms", "getForm", "listResponses"}

FormWriteOps == {"formsBulkWrite", "formsUpdateOne"}

DocWriteOps == {"bulkWrite", "updateOne"}

StoreOps ==
    {"connect", "createIndex", "findOne", "countDocuments", "close"}
        \cup FormWriteOps \cup DocWriteOps

\* an entry of the I/O history: the request was issued ("call"), returned
\* ("ok") or threw ("fail"); rej = the batch positions the store rejected
Ev(ev, r, rej) == [ev |-> ev, op |-> r.op, form |-> r.form, n |-> r.n, rej |-> rej]

\* the awaited request r has settled: it is no longer outstanding
Settled_Leak(r) == pending

Settled(r) == pending \ {r}

\* request r settles with outcome ev and the requests of calls are issued
Await(r, ev, rej, calls) ==
    /\ pending' = Settled(r) \cup {calls[i] : i \in 1..Len(calls)}
    /\ log' = Append(log, Ev(ev, r, rej))
                 \o [i \in 1..Len(calls) |-> Ev("call", calls[i], {})]

\* requests are issued with nothing to wait for
Issue(calls) ==
    /\ pending' = pending \cup {calls[i] : i \in 1..Len(calls)}
    /\ log' = log \o [i \in 1..Len(calls) |-> Ev("call", calls[i], {})]

(* Pagination of fetchAllForms / fetchAllResponses *)

\* the reply of the API to a request for page p
ReplyAt(pages, p) ==
    IF p <= Len(pages) THEN pages[p] ELSE [items |-> None, page_count |-> None]

\* data.items || []
PageItems(reply) == IF reply.items = None THEN <<>> ELSE reply.items[1]

\* data.page_count || 1
PageCount(reply) ==
    IF reply.page_count = None \/ reply.page_count[1] = 0 THEN 1
    ELSE reply.page_count[1]

\* list.length >= LIMIT, with None for Infinity
ReachedLimit(list, limit) == limit # None /\ Len(list) >= limit[1]

\* list.slice(0, LIMIT) for a limit >= 0
Slice_KeepAll(list, limit) == list

Slice(list, limit) ==
    IF limit = None \/ limit[1] >= Len(list) THEN list
    ELSE SubSeq(list, 1, limit[1])

\* what the loop does with the reply to the request for page p, given the
\* items collected so far: return the result, or request the next page
PageStep(list, p, reply, limit) ==
    LET list2 == list \o PageItems(reply)
    IN IF ReachedLimit(list2, limit)
       THEN [done |-> TRUE, list |-> list2, value |-> Slice(list2, limit), page |-> p]
       ELSE IF p >= PageCount(reply)
       THEN [done |-> TRUE, list |-> list2, value |-> list2, page |-> p]
       ELSE [done |-> FALSE, list |-> list2, value |-> <<>>, page |-> p + 1]

(* The forms collection *)

buildFormDocs(fs) == [i \in 1..Len(fs) |-> [form_id |-> fs[i].id, title |-> fs[i].title]]

\* formsCollection.updateOne({form_id}, {$set: d}, {upsert: true})
updateOneForm(st, d) ==
    LET hits == {i \in 1..Len(st) : st[i].form_id = d.form_id}
    IN IF hits = {} THEN Append(st, d)
       ELSE [st EXCEPT ![MinOf(hits)] = SetFields(st[MinOf(hits)], d)]

RECURSIVE ApplyFormOps(_, _, _)
ApplyFormOps(st, ops, i) ==
    IF i > Len(ops) THEN st
    ELSE ApplyFormOps(updateOneForm(st, ops[i]), ops, i + 1)

\* the positions of a batch of n operations in the order p, without rej
RECURSIVE Applied_Ordered(_, _, _, _)
Applied_Ordered(n, p, rej, i) ==
    IF i > n \/ p[i] \in rej THEN <<>>
    ELSE <<p[i]>> \o Applied_Ordered(n, p, rej, i + 1)

RECURSIVE Applied(_, _, _, _)
Applied(n, p, rej, i) ==
    IF i > n THEN <<>>
    ELSE (IF p[i] \in rej THEN <<>> ELSE <<p[i]>>) \o Applied(n, p, rej, i + 1)

(* Inputs of a run *)

FormF == [id |-> <<"F">>, title |-> Some("Form F")]
FormG == [id |-> <<"G">>, title |-> None]

Page(items, count) == [items |-> items, page_count |-> count]

FormsPages ==
    { << Page(Some(<<FormF>>), None) >>,
      << Page(Some(<<FormF>>), Some(2)), Page(Some(<<FormG>>), Some(2)) >>,
      << Page(Some(<<FormG, FormF>>), Some(3)), Page(None, Some(2)),
         Page(Some(<<FormF>>), Some(3)) >>,
      << Page(Some(<<>>), Some(0)) >> }

ResponsePages ==
    { << Page(Some(<<PA1>>), Some(2)), Page(Some(<<PD, PA2>>), Some(2)) >>,
      << Page(Some(<<PC>>), None) >>,
      << Page(Some(<<PC, PA1>>), Some(3)), Page(Some(<<>>), Some(3)),
         Page(Some(<<PA2>>), Some(3)) >> }

Worlds == {[forms |-> f, responses |-> r] : f \in FormsPages, r \in ResponsePages}

RunConfigs ==
    {[DRY_RUN |-> d, FORMS_LIMIT |-> fl, RESPONSES_LIMIT |-> rl, FORM_IDS |-> ids,
      formsCollection |-> fc] :
        d \in BOOLEAN, fl \in {None, Some(1)}, rl \in {None, Some(1)},
        ids \in {None, Some(<< <<"G">> >>)}, fc \in BOOLEAN}

\* the answers collection at the start of a run: empty, or as left by a run
\* that imported PA1 for form "F"
InitStores == {<<>>, buildAnswerDocs(<<"F">>, fetchFormDefinition(FieldsF1), PA1)}

InitRun ==
    /\ pc = "run"
    /\ mode \in Modes
    /\ store \in InitStores
    /\ before = <<>> /\ result = NoCounts /\ imported = <<>>
    /\ formId = <<>> /\ fieldMap = EmptyMap /\ resp = None
    /\ sig = NoSignals /\ docs = <<>>
    /\ ans = None /\ meta = None /\ label = None
    /\ rpc = "start"
    /\ cfg \in RunConfigs
    /\ api \in Worlds
    /\ forms = <<>> /\ fi = 1 /\ responses = <<>> /\ ri = 1
    /\ page = 1 /\ all = <<>> /\ di = 1 /\ totals = NoTotals
    /\ client = "null" /\ formsStore = <<>> /\ pending = {} /\ log = <<>>
    /\ fetched = <<>> /\ err = None /\ exit = None
    /\ env = NoEnv /\ argv = <<>>

\* the variables of the import and of the pure functions a run leaves alone
RunKeeps == UNCHANGED <<pc, mode, ans, meta, label, imported, api, cfg, env, argv>>

\* an exception leaves main's try block
Throw_Swallowed(what) == err' = None /\ rpc' = "finally"

Throw(what) == err' = Some(what) /\ rpc' = "finally"

(* main: connection setup, lines 520-549 *)

StartDry ==
    /\ rpc = "start" /\ cfg.DRY_RUN
    /\ rpc' = "fetchForms"
    /\ UNCHANGED <<formId, fieldMap, resp, sig, docs, store, before, result,
                   forms, fi, responses, ri, page, all, di, totals, client,
                   formsStore, pending, log, fetched, err, exit>>
    /\ RunKeeps

Connect ==
    /\ rpc = "start" /\ ~cfg.DRY_RUN
    /\ client' = "created"
    /\ Issue(<<Req("connect", <<>>, 0)>>)
    /\ rpc' = "connect"
    /\ UNCHANGED <<formId, fieldMap, resp, sig, docs, store, before, result,
                   forms, fi, responses, ri, page, all, di, totals,
                   formsStore, fetched, err, exit>>
    /\ RunKeeps

ConnectOk ==
    /\ rpc = "connect"
    /\ \E r \in pending :
          Await(r, "ok", {}, <<Req("createIndex", <<>>, 1)>>)
    /\ client' = "open"
    /\ rpc' = "createIndex"
    /\ UNCHANGED <<formId, fieldMap, resp, sig, docs, store, before, result,
                   forms, fi, responses, ri, page, all, di, totals,
                   formsStore, fetched, err, exit>>
    /\ RunKeeps

\* client.connect() throws outside the try block: main().catch exits
ConnectFail ==
    /\ rpc = "connect"
    /\ \E r \in pending : Await(r, "fail", {}, <<>>)
    /\ err' = Some("connect")
    /\ rpc' = "exited"
    /\ exit' = Some(1)
    /\ UNCHANGED <<formId, fieldMap, resp, sig, docs, store, before, result,
                   forms, fi, responses, ri, page, all, di, totals, client,
                   formsStore, fetched>>
    /\ RunKeeps

\* createIndex on the answers collection; a failure is only a warning
CreateIndexDone ==
    /\ rpc = "createIndex"
    /\ \E r \in pending, ev \in {"ok", "fail"} :
          Await(r, ev, {}, IF cfg.formsCollection
                           THEN <<Req("createIndex", <<>>, 2)>> ELSE <<>>)
    /\ rpc' = IF cfg.formsCollection THEN "createIndexForms" ELSE "fetchForms"
    /\ UNCHANGED <<formId, fieldMap, resp, sig, docs, store, before, result,
                   forms, fi, responses, ri, page, all, di, totals, client,
                   formsStore, fetched, err, exit>>
    /\ RunKeeps

CreateIndexFormsDone ==
    /\ rpc = "createIndexForms"
    /\ \E r \in pending, ev \in {"ok", "fail"} : Await(r, ev, {}, <<>>)
    /\ rpc' = "fetchForms"
    /\ UNCHANGED <<formId, fieldMap, resp, sig, docs, store, before, result,
                   forms, fi, responses, ri, page, all, di, totals, client,
                   formsStore, fetched, err, exit>>
    /\ RunKeeps

(* main: the forms, lines 552-576 *)

\* FORM_IDS given: no request
FormsFromIds ==
    /\ rpc = "fetchForms" /\ cfg.FORM_IDS # None
    /\ forms' = [i \in 1..Len(cfg.FORM_IDS[1]) |->
                    [id |-> cfg.FORM_IDS[1][i], title |-> None]]
    /\ rpc' = "upsertForms"
    /\ UNCHANGED <<formId, fieldMap, resp, sig, docs, store, before, result,
                   fi, responses, ri, page, all, di, totals, client,
                   formsStore, pending, log, fetched, err, exit>>
    /\ RunKeeps

\* fetchAllForms: the request for page 1
FetchAllForms ==
    /\ rpc = "fetchForms" /\ cfg.FORM_IDS = None
    /\ page' = 1 /\ all' = <<>> /\ fetched' = <<>>
    /\ Issue(<<Req("listForms", <<>>, 1)>>)
    /\ rpc' = "formsPage"
    /\ UNCHANGED <<formId, fieldMap, resp, sig, docs, store, before, result,
                   forms, fi, responses, ri, di, totals, client,
                   formsStore, err, exit>>
    /\ RunKeeps

\* fetchAllForms: a page arrives
FormsPageOk ==
    /\ rpc = "formsPage"
    /\ LET reply == ReplyAt(api.forms, page)
           step == PageStep(all, page, reply, cfg.FORMS_LIMIT)
       IN /\ fetched' = Append(fetched, [op |-> "listForms", page |-> page,
                                         reply |-> reply])
          /\ all' = step.list
          /\ page' = step.page
          /\ forms' = step.value
          /\ rpc' = IF step.done THEN "upsertForms" ELSE "formsPage"
          /\ \E r \in pending :
                Await(r, "ok", {}, IF step.done THEN <<>>
                                   ELSE <<Req("listForms", <<>>, step.page)>>)
    /\ UNCHANGED <<formId, fieldMap, resp, sig, docs, store, before, result,
                   fi, responses, ri, di, totals, client,
                   formsStore, err, exit>>
    /\ RunKeeps

FormsPageFail ==
    /\ rpc = "formsPage"
    /\ \E r \in pending : Await(r, "fail", {}, <<>>)
    /\ Throw("listForms")
    /\ UNCHANGED <<formId, fieldMap, resp, sig, docs, store, before, result,
                   forms, fi, responses, ri, page, all, di, totals, client,
                   formsStore, fetched, exit>>
    /\ RunKeeps

\* the write of the form documents is skipped: dry run, no forms collection
\* configured, or nothing to write
FormsSkip ==
    /\ rpc = "upsertForms"
    /\ cfg.DRY_RUN \/ ~cfg.formsCollection \/ forms = <<>>
    /\ fi' = 1
    /\ rpc' = "nextForm"
    /\ UNCHANGED <<formId, fieldMap, resp, sig, docs, store, before, result,
                   forms, responses, ri, page, all, di, totals, client,
                   formsStore, pending, log, fetched, err, exit>>
    /\ RunKeeps

\* upsertForms(formsCollection, formDocs): the first write is issued
FormsWrite ==
    /\ rpc = "upsertForms"
    /\ ~cfg.DRY_RUN /\ cfg.formsCollection /\ forms # <<>>
    /\ di' = 1
    /\ Issue(<<Req(IF mode = "single" THEN "formsUpdateOne" ELSE "formsBulkWrite",
                   <<>>, 1)>>)
    /\ rpc' = "formsWrite"
    /\ UNCHANGED <<formId, fieldMap, resp, sig, docs, store, before, result,
                   forms, fi, responses, ri, page, all, totals, client,
                   formsStore, fetched, err, exit>>
    /\ RunKeeps

FormsWriteOk ==
    /\ rpc = "formsWrite"
    /\ LET fd == buildFormDocs(forms)
       IN IF mode = "single"
          THEN /\ formsStore' = updateOneForm(formsStore, fd[di])
               /\ di' = di + 1
               /\ rpc' = IF di < Len(fd) THEN "formsWrite" ELSE "nextForm"
               /\ \E r \in pending :
                     Await(r, "ok", {}, IF di < Len(fd)
                                        THEN <<Req("formsUpdateOne", <<>>, di + 1)>>
                                        ELSE <<>>)
          ELSE /\ \E p \in Permutations(1..Len(fd)) :
                     formsStore' = ApplyFormOps(formsStore,
                                                [i \in 1..Len(fd) |-> fd[p[i]]], 1)
               /\ di' = di
               /\ rpc' = "nextForm"
               /\ \E r \in pending : Await(r, "ok", {}, <<>>)
    /\ fi' = 1
    /\ UNCHANGED <<formId, fieldMap, resp, sig, docs, store, before, result,
                   forms, responses, ri, page, all, totals, client,
                   fetched, err, exit>>
    /\ RunKeeps

\* the catch of lines 574-576: the failure is logged as a warning and main
\* goes on with the loop over the forms
FormsWriteFail ==
    /\ rpc = "formsWrite"
    /\ LET fd == buildFormDocs(forms)
       IN IF mode = "single"
          THEN /\ formsStore' = formsStore
               /\ \E r \in pending : Await(r, "fail", {di}, <<>>)
          ELSE \E rej \in (SUBSET (1..Len(fd))) \ {{}}, p \in Permutations(1..Len(fd)) :
                  LET kept == Applied(Len(fd), p, rej, 1)
                  IN /\ formsStore' = ApplyFormOps(formsStore,
                                         [i \in 1..Len(kept) |-> fd[kept[i]]], 1)
                     /\ \E r \in pending : Await(r, "fail", rej, <<>>)
    /\ fi' = 1
    /\ rpc' = "nextForm"
    /\ UNCHANGED <<formId, fieldMap, resp, sig, docs, store, before, result,
                   forms, responses, ri, page, all, di, totals, client,
                   fetched, err, exit>>
    /\ RunKeeps

(* main: the loop over the forms, lines 580-636 *)

\* the next form: fetchFormDefinition(formId) is requested
NextForm ==
    /\ rpc = "nextForm" /\ fi <= Len(forms)
    /\ formId' = forms[fi].id
    /\ Issue(<<Req("getForm", forms[fi].id, 0)>>)
    /\ rpc' = "definition"
    /\ UNCHANGED <<fieldMap, resp, sig, docs, store, before, result,
                   forms, fi, responses, ri, page, all, di, totals, client,
                   formsStore, fetched, err, exit>>
    /\ RunKeeps

\* the definition arrives; fetchAllResponses requests page 1
DefinitionOk ==
    /\ rpc = "definition"
    /\ fieldMap' = fetchFormDefinition(FieldsF1)
    /\ page' = 1 /\ all' = <<>> /\ fetched' = <<>>
    /\ \E r \in pending :
          Await(r, "ok", {}, <<Req("listResponses", formId, 1)>>)
    /\ rpc' = "respPage"
    /\ UNCHANGED <<formId, resp, sig, docs, store, before, result,
                   forms, fi, responses, ri, di, totals, client,
                   formsStore, err, exit>>
    /\ RunKeeps

DefinitionFail ==
    /\ rpc = "definition"
    /\ \E r \in pending : Await(r, "fail", {}, <<>>)
    /\ Throw("getForm")
    /\ UNCHANGED <<formId, fieldMap, resp, sig, docs, store, before, result,
                   forms, fi, responses, ri, page, all, di, totals, client,
                   formsStore, fetched, exit>>
    /\ RunKeeps

\* fetchAllResponses: a page arrives
RespPageOk ==
    /\ rpc = "respPage"
    /\ LET reply == ReplyAt(api.responses, page)
           step == PageStep(all, page, reply, cfg.RESPONSES_LIMIT)
       IN /\ fetched' = Append(fetched, [op |-> "listResponses", page |-> page,
                                         reply |-> reply])
          /\ all' = step.list
          /\ page' = step.page
          /\ responses' = step.value
          /\ rpc' = IF step.done THEN "nextResp" ELSE "respPage"
          /\ \E r \in pending :
                Await(r, "ok", {}, IF step.done THEN <<>>
                                   ELSE <<Req("listResponses", formId, step.page)>>)
    /\ ri' = 1
    /\ totals' = [totals EXCEPT !.formDocs = 0, !.formUpserts = 0,
                                !.formMatched = 0, !.formModified = 0]
    /\ UNCHANGED <<formId, fieldMap, resp, sig, docs, store, before, result,
                   forms, fi, di, client, formsStore, err, exit>>
    /\ RunKeeps

RespPageFail ==
    /\ rpc = "respPage"
    /\ \E r \in pending : Await(r, "fail", {}, <<>>)
    /\ Throw("listResponses")
    /\ UNCHANGED <<formId, fieldMap, resp, sig, docs, store, before, result,
                   forms, fi, responses, ri, page, all, di, totals, client,
                   formsStore, fetched, exit>>
    /\ RunKeeps

\* the documents of the response at position ri
Built(r) ==
    /\ resp' = r
    /\ docs' = buildAnswerDocs(formId, fieldMap, r)
    /\ sig' = extractEmailAndChiffre(Some(AnswerList(r)))

\* DRY_RUN: the documents are built, previewed and counted
ResponseDry ==
    /\ rpc = "nextResp" /\ ri <= Len(responses)
    /\ cfg.DRY_RUN
    /\ Built(responses[ri])
    /\ totals' = [totals EXCEPT !.formDocs = @ + Len(docs')]
    /\ ri' = ri + 1
    /\ UNCHANGED <<rpc, formId, fieldMap, store, before, result,
                   forms, fi, responses, page, all, di, client,
                   formsStore, pending, log, fetched, err, exit>>
    /\ RunKeeps

\* a response without answers: upsertDocs returns zeros at line 447 and
\* docs[0] is undefined, so nothing is written and nothing is read back
ResponseEmpty ==
    /\ rpc = "nextResp" /\ ri <= Len(responses)
    /\ ~cfg.DRY_RUN
    /\ Built(responses[ri])
    /\ docs' = <<>>
    /\ before' = store
    /\ result' = NoCounts
    /\ ri' = ri + 1
    /\ UNCHANGED <<rpc, formId, fieldMap, store, totals,
                   forms, fi, responses, page, all, di, client,
                   formsStore, pending, log, fetched, err, exit>>
    /\ RunKeeps

\* upsertDocs(collection, docs): the first write of the batch is issued
ResponseWrite ==
    /\ rpc = "nextResp" /\ ri <= Len(responses)
    /\ ~cfg.DRY_RUN
    /\ Built(responses[ri])
    /\ docs' # <<>>
    /\ before' = store
    /\ result' = NoCounts
    /\ di' = 1
    /\ Issue(<<Req(IF mode = "single" THEN "updateOne" ELSE "bulkWrite", formId, 1)>>)
    /\ rpc' = "write"
    /\ UNCHANGED <<formId, fieldMap, store, totals,
                   forms, fi, responses, ri, page, all, client,
                   formsStore, fetched, err, exit>>
    /\ RunKeeps

\* r is what the store did with the write; done = the batch is complete
WriteDone(r, done) ==
    /\ store' = r.store
    /\ result' = [upserted |-> result.upserted + r.upserted,
                  matched |-> result.matched + r.matched,
                  modified |-> result.modified + r.modified]
    /\ totals' = IF done
                 THEN [totals EXCEPT !.formUpserts = @ + result'.upserted,
                                     !.formMatched = @ + result'.matched,
                                     !.formModified = @ + result'.modified]
                 ELSE totals
    /\ rpc' = IF done THEN "verify" ELSE "write"

WriteOk ==
    /\ rpc = "write"
    /\ IF mode = "single"
       THEN /\ WriteDone(updateOne(store, docs[di]), di = Len(docs))
            /\ di' = di + 1
            /\ \E r \in pending :
                  Await(r, "ok", {}, IF di < Len(docs)
                                     THEN <<Req("updateOne", formId, di + 1)>>
                                     ELSE <<Req("findOne", formId, 0)>>)
       ELSE /\ \E p \in Permutations(1..Len(docs)) :
                  WriteDone(upsertBulk(store, docs, p), TRUE)
            /\ di' = di
            /\ \E r \in pending :
                  Await(r, "ok", {}, <<Req("findOne", formId, 0)>>)
    /\ UNCHANGED <<formId, fieldMap, resp, sig, docs, before,
                   forms, fi, responses, ri, page, all, client,
                   formsStore, fetched, err, exit>>
    /\ RunKeeps

\* the write throws.  single: updateOne of document di is rejected.  bulk:
\* with ordered: false the server applies every operation it does not
\* reject, and bulkWrite throws once at the end (rethrown at line 485)
WriteFail ==
    /\ rpc = "write"
    /\ IF mode = "single"
       THEN /\ store' = store
            /\ \E r \in pending : Await(r, "fail", {di}, <<>>)
       ELSE \E rej \in (SUBSET (1..Len(docs))) \ {{}}, p \in Permutations(1..Len(docs)) :
               LET kept == Applied(Len(docs), p, rej, 1)
               IN /\ store' = upsertSingle(store, [i \in 1..Len(kept) |-> docs[kept[i]]]).store
                  /\ \E r \in pending : Await(r, "fail", rej, <<>>)
    /\ Throw(IF mode = "single" THEN "updateOne" ELSE "bulkWrite")
    /\ UNCHANGED <<formId, fieldMap, resp, sig, docs, before, result,
                   forms, fi, responses, ri, page, all, di, totals, client,
                   formsStore, fetched, exit>>
    /\ RunKeeps

\* collection.findOne of the sample document returned
VerifyOk ==
    /\ rpc = "verify"
    /\ \E r \in pending : Await(r, "ok", {}, <<>>)
    /\ totals' = [totals EXCEPT !.formDocs = @ + Len(docs)]
    /\ ri' = ri + 1
    /\ rpc' = "nextResp"
    /\ UNCHANGED <<formId, fieldMap, resp, sig, docs, store, before, result,
                   forms, fi, responses, page, all, di, client,
                   formsStore, fetched, err, exit>>
    /\ RunKeeps

VerifyFail ==
    /\ rpc = "verify"
    /\ \E r \in pending : Await(r, "fail", {}, <<>>)
    /\ Throw("findOne")
    /\ UNCHANGED <<formId, fieldMap, resp, sig, docs, store, before, result,
                   forms, fi, responses, ri, page, all, di, totals, client,
                   formsStore, fetched, exit>>
    /\ RunKeeps

\* all responses of the form are done: totals, then countDocuments
FormDone_AlwaysCounts ==
    /\ rpc = "nextResp" /\ ri > Len(responses)
    /\ totals' = [totals EXCEPT !.grandTotalDocs = @ + totals.formDocs,
                                !.grandTotalUpserts = @ + totals.formUpserts]
    /\ fi' = fi
    /\ rpc' = "count"
    /\ Issue(<<Req("countDocuments", formId, 0)>>)
    /\ UNCHANGED <<formId, fieldMap, resp, sig, docs, store, before, result,
                   forms, responses, ri, page, all, di, client,
                   formsStore, fetched, err, exit>>
    /\ RunKeeps

FormDone ==
    /\ rpc = "nextResp" /\ ri > Len(responses)
    /\ totals' = [totals EXCEPT !.grandTotalDocs = @ + totals.formDocs,
                                !.grandTotalUpserts = @ + totals.formUpserts]
    /\ IF cfg.DRY_RUN
       THEN /\ fi' = fi + 1
            /\ rpc' = "nextForm"
            /\ UNCHANGED <<pending, log>>
       ELSE /\ fi' = fi
            /\ rpc' = "count"
            /\ Issue(<<Req("countDocuments", formId, 0)>>)
    /\ UNCHANGED <<formId, fieldMap, resp, sig, docs, store, before, result,
                   forms, responses, ri, page, all, di, client,
                   formsStore, fetched, err, exit>>
    /\ RunKeeps

\* countDocuments returned or threw: both only change the log line
CountDone ==
    /\ rpc = "count"
    /\ \E r \in pending, ev \in {"ok", "fail"} : Await(r, ev, {}, <<>>)
    /\ fi' = fi + 1
    /\ rpc' = "nextForm"
    /\ UNCHANGED <<formId, fieldMap, resp, sig, docs, store, before, result,
                   forms, responses, ri, page, all, di, totals, client,
                   formsStore, fetched, err, exit>>
    /\ RunKeeps

\* the loop over the forms ends normally
AllFormsDone ==
    /\ rpc = "nextForm" /\ fi > Len(forms)
    /\ rpc' = "finally"
    /\ UNCHANGED <<formId, fieldMap, resp, sig, docs, store, before, result,
                   forms, fi, responses, ri, page, all, di, totals, client,
                   formsStore, pending, log, fetched, err, exit>>
    /\ RunKeeps

(* main: finally, lines 637-645 *)

ExitCode_AlwaysZero == Some(0)

ExitCode == IF err = None THEN Some(0) ELSE Some(1)

\* if (client) await client.close()
Close ==
    /\ rpc = "finally" /\ client # "null"
    /\ Issue(<<Req("close", <<>>, 0)>>)
    /\ rpc' = "closing"
    /\ UNCHANGED <<formId, fieldMap, resp, sig, docs, store, before, result,
                   forms, fi, responses, ri, page, all, di, totals, client,
                   formsStore, fetched, err, exit>>
    /\ RunKeeps

\* client.close() returned: main returns, or rejects with the pending error
CloseDone ==
    /\ rpc = "closing"
    /\ \E r \in pending : Await(r, "ok", {}, <<>>)
    /\ client' = "closed"
    /\ rpc' = "exited"
    /\ exit' = ExitCode
    /\ UNCHANGED <<formId, fieldMap, resp, sig, docs, store, before, result,
                   forms, fi, responses, ri, page, all, di, totals,
                   formsStore, fetched, err>>
    /\ RunKeeps

\* client.close() threw inside finally: main rejects with that error
CloseFail ==
    /\ rpc = "closing"
    /\ \E r \in pending : Await(r, "fail", {}, <<>>)
    /\ err' = Some("close")
    /\ rpc' = "exited"
    /\ exit' = Some(1)
    /\ UNCHANGED <<formId, fieldMap, resp, sig, docs, store, before, result,
                   forms, fi, responses, ri, page, all, di, totals, client,
                   formsStore, fetched>>
    /\ RunKeeps

\* no client (dry run): main returns or rejects
ExitNoClient_SkipsClose ==
    /\ rpc = "finally"
    /\ rpc' = "exited"
    /\ exit' = ExitCode
    /\ UNCHANGED <<formId, fieldMap, resp, sig, docs, store, before, result,
                   forms, fi, responses, ri, page, all, di, totals, client,
                   formsStore, pending, log, fetched, err>>
    /\ RunKeeps

ExitNoClient ==
    /\ rpc = "finally" /\ client = "null"
    /\ rpc' = "exited"
    /\ exit' = ExitCode
    /\ UNCHANGED <<formId, fieldMap, resp, sig, docs, store, before, result,
                   forms, fi, responses, ri, page, all, di, totals, client,
                   formsStore, pending, log, fetched, err>>
    /\ RunKeeps

NextRun ==
    \/ StartDry \/ Connect \/ ConnectOk \/ ConnectFail
    \/ CreateIndexDone \/ CreateIndexFormsDone
    \/ FormsFromIds \/ FetchAllForms \/ FormsPageOk \/ FormsPageFail
    \/ FormsSkip \/ FormsWrite \/ FormsWriteOk \/ FormsWriteFail
    \/ NextForm \/ DefinitionOk \/ DefinitionFail
    \/ RespPageOk \/ RespPageFail
    \/ ResponseDry \/ ResponseEmpty \/ ResponseWrite
    \/ WriteOk \/ WriteFail \/ VerifyOk \/ VerifyFail
    \/ FormDone \/ CountDone \/ AllFormsDone
    \/ Close \/ CloseDone \/ CloseFail \/ ExitNoClient

SpecRun == InitRun /\ [][NextRun]_vars

-----------------------------------------------------------------------------
(* Properties                                                              *)

SameKey(d, e) == d.id = e.id /\ d.idx = e.idx

\* the last import is a repetition of the one before it
Reimported ==
    /\ Len(imported) >= 2
    /\ imported[Len(imported)].formId = imported[Len(imported) - 1].formId
    /\ imported[Len(imported)].resp = imported[Len(imported) - 1].resp

\* C1: importing the same unchanged response a second time, in either write
\* mode, leaves the store as it was and reports zero newly created and zero
\* changed keys for the second batch (every key is matched unchanged).
C1_Idempotent ==
    (pc = "idle" /\ Reimported) =>
        /\ store = before
        /\ result.upserted = 0
        /\ result.modified = 0
        /\ result.matched = Len(docs)

C1_Witness ==
    /\ pc = "idle" /\ Reimported
    /\ Len(docs) >= 2
    /\ Len(before) > Len(docs)
    /\ result.matched = Len(docs)

\* positions of the last batch whose key was stored before the write with
\* different field values, and positions whose key was not stored
ChangedKeys ==
    {k \in 1..Len(docs) :
        \E i \in 1..Len(before) : SameKey(before[i], docs[k]) /\ before[i] # docs[k]}

NewKeys ==
    {k \in 1..Len(docs) : \A i \in 1..Len(before) : ~SameKey(before[i], docs[k])}

KeyUnique ==
    \A i, j \in 1..Len(store) : i # j => ~SameKey(store[i], store[j])

\* C2: after any sequence of imports the store holds at most one document
\* per (id, idx); a record written to an existing key with different values
\* replaces the stored values, is counted as changed, and adds no document
\* (the store grows only by the keys that were absent).
C2_NoDuplicates ==
    /\ KeyUnique
    /\ (pc = "idle" /\ imported # <<>>) =>
          /\ \A k \in ChangedKeys : \E i \in 1..Len(store) : store[i] = docs[k]
          /\ result.modified = Cardinality(ChangedKeys)
          /\ Len(store) = Len(before) + Cardinality(NewKeys)

C2_Witness ==
    /\ pc = "idle" /\ imported # <<>>
    /\ ChangedKeys # {}
    /\ result.modified >= 1
    /\ Len(store) = Len(before)

\* C3: for a response with N answers buildAnswerDocs returns exactly N
\* records, the k-th built from the k-th answer and carrying index k
\* (counted from 0); for N = 0 it returns the empty sequence.
C3_RecordPerAnswer ==
    pc = "built" =>
        LET list == AnswerList(resp) IN
        /\ Len(docs) = Len(list)
        /\ \A k \in 1..Len(list) :
              /\ docs[k].idx = k - 1
              /\ docs[k].field_id = FieldIdOf(list[k])
              /\ docs[k].antwort =
                    answerValueToLabel(Some(list[k]),
                                       FieldMetaOf(fieldMap, FieldIdOf(list[k])))

C3_Witness ==
    /\ pc = "built"
    /\ Len(docs) >= 2
    /\ docs[1].antwort # docs[2].antwort
    /\ docs[2].idx = 1

RECURSIVE SumDocs(_, _)
SumDocs(h, i) == IF i > Len(h) THEN 0 ELSE Len(h[i].docs) + SumDocs(h, i + 1)

\* the imported responses differ pairwise in formId or responseId
DistinctImports ==
    \A i, j \in 1..Len(imported) :
        i # j => \/ imported[i].formId # imported[j].formId
                 \/ RidOf(imported[i].resp) # RidOf(imported[j].resp)

\* C4: records of two different responses (different formId or different
\* responseId) never share (id, idx); hence after importing distinct responses
\* into the empty store the number of stored documents is the total number
\* of their answers.
C4_GlobalKeyUnique ==
    (pc = "idle" /\ DistinctImports) =>
        /\ \A i, j \in 1..Len(imported) :
              i # j => \A k \in 1..Len(imported[i].docs), l \in 1..Len(imported[j].docs) :
                          ~SameKey(imported[i].docs[k], imported[j].docs[l])
        /\ Len(store) = SumDocs(imported, 1)

\* the email of the first email-typed answer with a non-empty email value
RECURSIVE FirstEmail(_)
FirstEmail(list) ==
    IF list = <<>> THEN None
    ELSE IF Head(list).type = Some("email") /\ Head(list).email # None
            /\ Head(list).email # Some(<<>>)
         THEN Head(list).email
    ELSE FirstEmail(Tail(list))

\* C5: the extracted email is the email of the first email-typed answer with
\* a non-empty email value, wherever a chiffre match occurs in the list.
C5_EmailIndependent ==
    pc = "built" => sig.email = FirstEmail(AnswerList(resp))

\* the claim's scan order: all candidates of the first answer, then all of
\* the second, ...; per answer text, email, number, date, choice label,
\* choices labels; absent and empty values contribute no candidate
Present(o) == IF o # None /\ o # Some(<<>>) THEN <<o>> ELSE <<>>

ScanOrder(a) ==
    Present(a.text) \o Present(a.email)
    \o (IF a.number = None THEN <<>> ELSE <<Some(NumberToString(a.number[1]))>>)
    \o Present(a.date)
    \o (IF a.choice = None THEN <<>> ELSE Present(a.choice[1].label))
    \o (IF a.choices = None \/ a.choices[1].labels = None THEN <<>>
        ELSE a.choices[1].labels[1])

RECURSIVE AllCandidates(_)
AllCandidates(list) ==
    IF list = <<>> THEN <<>> ELSE ScanOrder(Head(list)) \o AllCandidates(Tail(list))

Matching(cs) == {i \in 1..Len(cs) : cs[i] # None /\ CHIFFRE_REGEX(cs[i][1])}

\* C6: the extracted chiffre is the first string candidate, in scan order,
\* that matches the pattern; null when no candidate matches.
C6_ChiffreFirstMatch ==
    pc = "built" =>
        LET cs == AllCandidates(AnswerList(resp))
            m == Matching(cs)
        IN IF m = {} THEN sig.chiffre = None
           ELSE sig.chiffre = cs[CHOOSE i \in m : \A j \in m : i <= j]

C6_Witness ==
    /\ pc = "built"
    /\ Len(AnswerList(resp)) = 2
    /\ Matching(ScanOrder(AnswerList(resp)[1])) = {}
    /\ ScanOrder(AnswerList(resp)[1]) # <<>>
    /\ Cardinality(Matching(ScanOrder(AnswerList(resp)[2]))) = 2
    /\ sig.chiffre = Some(Chiffre1)

NullText == <<"n", "u", "l", "l">>

UndefinedText == <<"u", "n", "d", "e", "f", "i", "n", "e", "d">>

\* the text a nullable string contributes to a concatenation
Text(o) == IF o = None THEN NullText ELSE o[1]

C8_AbsentMarker ==
    (pc = "built" /\ sig = NoSignals /\ RidOf(resp) # None) =>
        \A k \in 1..Len(docs) :
            /\ docs[k].id = formId \o <<"_">> \o UndefinedText \o <<"_">>
                            \o RidOf(resp)[1] \o <<"_">> \o UndefinedText
            /\ docs[k].chiffre = None
            /\ docs[k].email = None

\* C9: all records of one response agree on id, chiffre, email, datum,
\* form_id and response_id, and two distinct records differ in idx.
C9_SharedIdentity ==
    pc = "built" =>
        \A i, j \in 1..Len(docs) :
            /\ docs[i].id = docs[j].id
            /\ docs[i].chiffre = docs[j].chiffre
            /\ docs[i].email = docs[j].email
            /\ docs[i].datum = docs[j].datum
            /\ docs[i].form_id = docs[j].form_id
            /\ docs[i].response_id = docs[j].response_id
            /\ (i # j => docs[i].idx # docs[j].idx)

C9_Witness ==
    /\ pc = "built"
    /\ Len(docs) >= 2
    /\ docs[1].email # None
    /\ docs[2].chiffre # None
    /\ docs[1].antwort # docs[2].antwort

\* the label the field's choice table holds for a choice identifier
TableLabel(m, cid) ==
    IF m # None /\ cid # None /\ m[1].choices # None
       /\ cid[1] \in DOMAIN m[1].choices[1].byId
    THEN m[1].choices[1].byId[cid[1]]
    ELSE None

NonEmpty(o) == o # None /\ o # Some(<<>>)

\* C10: answerValueToLabel returns the value of the first applicable rule:
\* text; email; stringified number; date; stringified boolean; url;
\* single choice (own label, else the table's label for the choice id, else
\* "other", else null); choices (labels joined with ", "); file URL; null.
C10_NormalizationOrder ==
    (pc = "labelled" /\ ans # None) =>
        LET x == ans[1]
            direct == <<x.text, x.email, x.number, x.date, x.boolean, x.url>>
            NoneBefore(n) == \A i \in 1..(n - 1) : direct[i] = None
            multi == x.choices # None /\ x.choices[1].labels # None
        IN /\ x.text # None => label = x.text
           /\ (NoneBefore(2) /\ x.email # None) => label = x.email
           /\ (NoneBefore(3) /\ x.number = Some(0)) => label = Some(<<"0">>)
           /\ (NoneBefore(3) /\ x.number = Some(42)) => label = Some(<<"4", "2">>)
           /\ (NoneBefore(4) /\ x.date # None) => label = x.date
           /\ (NoneBefore(5) /\ x.boolean = Some(TRUE)) =>
                 label = Some(<<"t", "r", "u", "e">>)
           /\ (NoneBefore(5) /\ x.boolean = Some(FALSE)) =>
                 label = Some(<<"f", "a", "l", "s", "e">>)
           /\ (NoneBefore(6) /\ x.url # None) => label = x.url
           /\ (NoneBefore(7) /\ x.choice # None) =>
                 LET c == x.choice[1]
                     t == TableLabel(meta, c.id)
                 IN label = IF NonEmpty(c.label) THEN c.label
                            ELSE IF NonEmpty(t) THEN t
                            ELSE IF NonEmpty(c.other) THEN c.other
                            ELSE None
           /\ (NoneBefore(7) /\ x.choice = None /\ multi) =>
                 /\ label = Some(JoinLabels(x.choices[1].labels[1]))
                 /\ x.choices[1].labels[1] = <<Some(Malen), Some(Karate)>> =>
                       label = Some(Malen \o <<",", " ">> \o Karate)
           /\ (NoneBefore(7) /\ x.choice = None /\ ~multi /\ NonEmpty(x.file_url)) =>
                 label = x.file_url
           /\ (NoneBefore(7) /\ x.choice = None /\ ~multi /\ ~NonEmpty(x.file_url)) =>
                 label = None

C10_Witness ==
    /\ pc = "labelled" /\ ans # None
    /\ \A f \in {"text", "email", "number", "date", "boolean", "url"} : ans[1][f] = None
    /\ ans[1].choice = Choice(None, Some("c1"), Some(Karate))
    /\ ans[1].choices # None
    /\ ans[1].file_url = Some(UrlU)
    /\ label = Some(Malen)

\* positions of the last batch whose key was stored before the write with
\* identical field values
UnchangedKeys ==
    {k \in 1..Len(docs) : \E i \in 1..Len(before) : before[i] = docs[k]}

WrittenBatch == pc = "idle" /\ imported # <<>> /\ docs # <<>>

\* C11 as claimed: the three counts are the keys absent before the write,
\* the keys present with different fields and the keys present with identical
\* fields; they are disjoint and sum to the batch size.
C11_CountersPartition ==
    WrittenBatch =>
        /\ result.upserted = Cardinality(NewKeys)
        /\ result.modified = Cardinality(ChangedKeys)
        /\ result.matched = Cardinality(UnchangedKeys)
        /\ result.upserted + result.matched + result.modified = Len(docs)

\* C11 as amended: matched counts every batch key that was present before
\* the write, changed or not; modified counts those of them whose fields
\* differed; upserted counts the absent keys; upserted and matched are
\* disjoint and sum to the batch size.
C11_Counters ==
    WrittenBatch =>
        /\ result.upserted = Cardinality(NewKeys)
        /\ result.modified = Cardinality(ChangedKeys)
        /\ result.matched = Cardinality(ChangedKeys) + Cardinality(UnchangedKeys)
        /\ ChangedKeys \cap UnchangedKeys = {}
        /\ result.upserted + result.matched = Len(docs)

C11_Witness ==
    /\ WrittenBatch
    /\ ChangedKeys # {}
    /\ UnchangedKeys # {}
    /\ result.matched = 2
    /\ result.modified = 1
    /\ result.upserted = 0

-----------------------------------------------------------------------------
(* Properties of a run                                                     *)

LastEv == log[Len(log)]

Stored(st, d) == \E i \in 1..Len(st) : st[i] = d

\* bulkWrite of the batch docs has just thrown
BulkFailed ==
    /\ log # <<>>
    /\ LastEv.ev = "fail" /\ LastEv.op = "bulkWrite"

\* C12: when the store rejects one or more keys of a batch written in
\* batched mode, every other key of the batch is still applied, the error
\* is thrown for the batch as a whole (it leaves upsertDocs and main's try
\* block), and every document stored before the batch under a key the
\* batch does not apply keeps its stored value.
C12_BulkPartialFailure ==
    BulkFailed =>
        /\ \A k \in (1..Len(docs)) \ LastEv.rej : Stored(store, docs[k])
        /\ err = Some("bulkWrite") /\ rpc = "finally"
        /\ Len(store) >= Len(before)
        /\ \A i \in 1..Len(before) :
              (\A k \in (1..Len(docs)) \ LastEv.rej : ~SameKey(before[i], docs[k]))
                  => store[i] = before[i]

C12_Witness ==
    /\ BulkFailed
    /\ LastEv.rej # {} /\ LastEv.rej # 1..Len(docs)
    /\ \E k \in (1..Len(docs)) \ LastEv.rej :
          ~Stored(before, docs[k]) /\ Stored(store, docs[k])
    /\ \E i \in 1..Len(before) :
          /\ \A k \in 1..Len(docs) : ~SameKey(before[i], docs[k])
          /\ store[i] = before[i]

\* positions of the I/O history where a write of the given kind threw
FailedAt(ops) == {i \in 1..Len(log) : log[i].ev = "fail" /\ log[i].op \in ops}

\* no forms-API request and no store write is issued after position i
NothingAfter(i) ==
    \A j \in (i + 1)..Len(log) :
        ~(log[j].ev = "call" /\ log[j].op \in ApiOps \cup FormWriteOps \cup DocWriteOps)

ExitedNonZero == rpc = "exited" => exit = Some(1)

\* C13 as stated: whenever a store write fails (the form-summary batch or
\* an answer-record batch, in either write mode), no forms-API request and
\* no store write is issued afterwards and the process ends non-zero.
C13_AnyWriteFailureAborts ==
    \A i \in FailedAt(FormWriteOps \cup DocWriteOps) : NothingAfter(i) /\ ExitedNonZero

\* C13 amended: a failed write of an answer-record batch, in either write
\* mode, aborts the run: afterwards only the connection is closed, and the
\* process ends non-zero.  A failed write of the form-summary batch only
\* ends the form-summary step: no further form-summary write is issued, the
\* failure is not the run's error, and the run goes on with the forms.
C13_AnswerWriteFailureAborts ==
    /\ \A i \in FailedAt(DocWriteOps) :
          /\ NothingAfter(i)
          /\ \A j \in (i + 1)..Len(log) : log[j].op = "close"
          /\ err # None
          /\ ExitedNonZero
    /\ \A i \in FailedAt(FormWriteOps) :
          /\ \A j \in (i + 1)..Len(log) : log[j].op \notin FormWriteOps
          /\ err # None => err[1] \notin FormWriteOps
          /\ (i < Len(log) /\ forms # <<>>) => log[i + 1] = Ev("call", Req("getForm", forms[1].id, 0), {})

C13_Witness ==
    /\ rpc = "exited" /\ exit = Some(1) /\ client = "closed"
    /\ \E i \in FailedAt(FormWriteOps), j \in FailedAt(DocWriteOps) :
          /\ i < j
          /\ \E m \in (i + 1)..(j - 1) : log[m].ev = "ok" /\ log[m].op \in DocWriteOps

\* the position of the last getForm request issued before position i (0 if
\* there is none): the start of the loop iteration position i belongs to
IterationStart(i) ==
    LET gs == {j \in 1..i : log[j].ev = "call" /\ log[j].op = "getForm"}
    IN IF gs = {} THEN 0 ELSE CHOOSE j \in gs : \A m \in gs : m <= j

\* C14: as soon as a forms-API request (list forms, form definition, a
\* responses page) fails, it is not issued again, no further forms-API
\* request and no further store write occurs, and the process exits
\* non-zero; no answer record was written in the loop iteration of the form
\* whose definition or responses failed to load (none at all when the list
\* of forms failed), and from the failure on the stored documents stay as
\* they are.
C14_FetchFailureFatal ==
    /\ [](\A i \in FailedAt(ApiOps) :
            /\ NothingAfter(i)
            /\ \A j \in (i + 1)..Len(log) : log[j].op = "close"
            /\ err \in {Some(log[i].op), Some("close")}
            /\ ExitedNonZero
            /\ \A j \in (IterationStart(i) + 1)..Len(log) : log[j].op \notin DocWriteOps)
    /\ [][FailedAt(ApiOps)' # {} => store' = store /\ formsStore' = formsStore]_vars

C14_Witness ==
    /\ rpc = "exited" /\ exit = Some(1) /\ client = "closed"
    /\ fi = 2
    /\ \E i \in FailedAt({"listResponses"}) :
          /\ log[i].n = 2
          /\ \E j \in 1..i : log[j].ev = "ok" /\ log[j].op \in DocWriteOps
    /\ Len(store) >= 3

\* the number of documents built from the first n responses of the form
RECURSIVE BuiltCount(_)
BuiltCount(n) ==
    IF n = 0 THEN 0
    ELSE BuiltCount(n - 1) + Len(buildAnswerDocs(formId, fieldMap, responses[n]))

\* C15: in a run with dry-run enabled no store connection is opened, no
\* index is created and no upsert, bulk write, find or count is issued (the
\* I/O history holds forms-API requests only and the store is as it was);
\* the documents of every response are still built and counted.
C15_DryRunNoStoreIO ==
    cfg.DRY_RUN =>
        /\ \A i \in 1..Len(log) : log[i].op \in ApiOps
        /\ \A r \in pending : r.op \in ApiOps
        /\ client = "null"
        /\ store \in InitStores /\ formsStore = <<>>
        /\ rpc = "nextResp" =>
              /\ totals.formDocs = BuiltCount(ri - 1)
              /\ ri > 1 => docs = buildAnswerDocs(formId, fieldMap, responses[ri - 1])

C15_Witness ==
    /\ cfg.DRY_RUN
    /\ rpc = "nextResp" /\ fi = 2 /\ ri = 4
    /\ totals.formDocs = 5 /\ totals.grandTotalDocs = 5
    /\ \E i \in 1..Len(log) : log[i].op = "listResponses" /\ log[i].n = 3

\* positions of the I/O history where the operation was issued / returned
Calls(op) == {i \in 1..Len(log) : log[i].ev = "call" /\ log[i].op = op}

Returns(op) == {i \in 1..Len(log) : log[i].ev = "ok" /\ log[i].op = op}

\* C17: a run that is not a dry run opens the store connection exactly
\* once; on every path on which the process ends after the connection was
\* opened, normal or failing, close is called exactly once and has settled
\* before the process exits, and no store operation is issued after it.
C17_ConnectionLifecycle ==
    /\ Cardinality(Calls("connect")) = (IF cfg.DRY_RUN \/ rpc = "start" THEN 0 ELSE 1)
    /\ Cardinality(Calls("close")) <= 1
    /\ Calls("close") # {} => Returns("connect") # {}
    /\ \A i \in Calls("close") : \A j \in (i + 1)..Len(log) : log[j].op = "close"
    /\ \A r \in pending : r.op \in StoreOps \ {"connect"} => client = "open"
    /\ (rpc = "exited" /\ Returns("connect") # {}) =>
          /\ Cardinality(Calls("close")) = 1
          /\ LastEv.op = "close" /\ LastEv.ev # "call"
          /\ LastEv.ev = "ok" => client = "closed"
          /\ pending = {}

C17_Witness ==
    /\ rpc = "exited" /\ err = Some("findOne")
    /\ Cardinality(Calls("connect")) = 1
    /\ Cardinality(Calls("close")) = 1
    /\ client = "closed"

\* the fetch the recorded replies belong to, its limit and its result
Fetching == rpc \in {"formsPage", "respPage"}

FetchLimit ==
    IF fetched[1].op = "listForms" THEN cfg.FORMS_LIMIT ELSE cfg.RESPONSES_LIMIT

FetchResult == IF fetched[1].op = "listForms" THEN forms ELSE responses

FetchDone ==
    /\ fetched # <<>> /\ ~Fetching
    /\ FailedAt({"listForms", "listResponses"}) = {}

\* the items of the first n replies, in page order
RECURSIVE ItemsUpTo(_)
ItemsUpTo(n) ==
    IF n = 0 THEN <<>>
    ELSE ItemsUpTo(n - 1) \o (IF fetched[n].reply.items = None THEN <<>>
                              ELSE fetched[n].reply.items[1])

\* page_count of the n-th reply, a missing one counting as 1
CountOf(n) ==
    IF fetched[n].reply.page_count = None THEN 1 ELSE fetched[n].reply.page_count[1]

\* the n-th reply ends the fetch
Stops(n) ==
    \/ fetched[n].page >= CountOf(n)
    \/ FetchLimit # None /\ Len(ItemsUpTo(n)) >= FetchLimit[1]

Truncated(list, limit) ==
    IF limit = None THEN list
    ELSE [i \in 1..(IF Len(list) < limit[1] THEN Len(list) ELSE limit[1]) |-> list[i]]

\* C18: fetchAllForms and fetchAllResponses request the pages 1, 2, 3, ...
\* in increasing order, each once; they go on while no reply ends the fetch
\* and stop after the first reply whose page number is >= its page_count
\* (a missing page_count counting as 1) or with which the collected items
\* reach the limit (a non-negative integer, or none); the result is the
\* concatenation of the fetched pages' items in page order truncated to the
\* limit, so it never has more items than the limit and without a limit
\* holds every item of the pages 1..page_count; the loop is bounded by
\* page_count: page n + 1 is requested only if n < page_count of reply n.
C18_Pagination ==
    fetched # <<>> =>
        /\ \A n \in 1..Len(fetched) : fetched[n].page = n
        /\ \A n \in 1..(Len(fetched) - 1) : ~Stops(n) /\ n + 1 <= CountOf(n)
        /\ Fetching => /\ ~Stops(Len(fetched))
                       /\ page = Len(fetched) + 1
                       /\ page <= CountOf(Len(fetched))
                       /\ pending = {Req(fetched[1].op,
                                         IF fetched[1].op = "listForms"
                                         THEN <<>> ELSE formId, page)}
        /\ FetchDone =>
              /\ Stops(Len(fetched))
              /\ FetchResult = Truncated(ItemsUpTo(Len(fetched)), FetchLimit)
              /\ FetchLimit # None => Len(FetchResult) <= FetchLimit[1]
              /\ FetchLimit = None =>
                    /\ Len(fetched) >= CountOf(Len(fetched))
                    /\ FetchResult = ItemsUpTo(Len(fetched))

C18_Witness ==
    /\ FetchDone
    /\ Len(fetched) = 3
    /\ fetched[1].op = "listResponses"
    /\ FetchLimit = None
    /\ Len(FetchResult) = 3
    /\ fetched[2].reply.items = Some(<<>>)

\* positions after the last getForm request where the operation returned
DoneSince(op) == {j \in Returns(op) : j > IterationStart(Len(log))}

\* the responses of the current form that have answers
WithAnswers == {k \in 1..Len(responses) : AnswerList(responses[k]) # <<>>}

\* every response batch of the current form has been written and verified
AllBatchesWritten ==
    /\ ri = Len(responses) + 1
    /\ Cardinality(DoneSince("findOne")) = Cardinality(WithAnswers)
    /\ IF mode = "single"
       THEN Cardinality(DoneSince("updateOne")) = BuiltCount(Len(responses))
       ELSE Cardinality(DoneSince("bulkWrite")) = Cardinality(WithAnswers)

\* C19: at every point of a run at most one forms-API request or store
\* operation is outstanding, and each request is issued only after the one
\* before it has settled (so the write batch of response k+1 follows the
\* completion of the batch of response k); the definition of the next form
\* is requested only after every response batch of the form before it has
\* been written; a response with zero answers issues no write and the run
\* proceeds to the next response.
C19_Sequential ==
    /\ [](/\ Cardinality(pending) <= 1
          /\ \A i \in 1..Len(log) :
                IF i % 2 = 1
                THEN log[i].ev = "call"
                ELSE /\ log[i].ev \in {"ok", "fail"}
                     /\ log[i].op = log[i - 1].op
                     /\ log[i].form = log[i - 1].form
                     /\ log[i].n = log[i - 1].n
          /\ pending = (IF Len(log) % 2 = 1
                        THEN {Req(LastEv.op, LastEv.form, LastEv.n)} ELSE {}))
    /\ [][Calls("getForm")' # Calls("getForm") =>
              /\ pending = {}
              /\ (fi > 1 /\ ~cfg.DRY_RUN) => AllBatchesWritten]_vars
    /\ [][(/\ rpc = "nextResp" /\ ri <= Len(responses) /\ ~cfg.DRY_RUN
           /\ AnswerList(responses[ri]) = <<>>) =>
              /\ log' = log /\ pending' = pending /\ store' = store
              /\ ri' = ri + 1 /\ rpc' = "nextResp"]_vars

C19_Witness ==
    /\ ~cfg.DRY_RUN
    /\ rpc = "definition" /\ fi = 2
    /\ responses = <<PA1, PD, PA2>>
    /\ Cardinality(Returns("findOne")) = 2
    /\ Cardinality(pending) = 1

\* the setting is given in the environment and as a flag, with different values
GivenBoth(envValue, flag) ==
    /\ envValue # None
    /\ getArg(argv, flag) # None
    /\ envValue # getArg(argv, flag)

\* C16: when a setting is given both as an environment variable and as a
\* command-line flag with a different value (FORMS_LIMIT / --max-forms,
\* RESPONSES_LIMIT / --max-responses, FORM_IDS / --form-ids), the value in
\* effect for the run is the one of the flag.
C16_CliOverridesEnv ==
    rpc = "loaded" =>
        /\ GivenBoth(env.FORMS_LIMIT, FlagMaxForms) =>
              cfg.FORMS_LIMIT = toInt(getArg(argv, FlagMaxForms), None)
        /\ GivenBoth(env.RESPONSES_LIMIT, FlagMaxResponses) =>
              cfg.RESPONSES_LIMIT = toInt(getArg(argv, FlagMaxResponses), None)
        /\ GivenBoth(env.FORM_IDS, <<"f", "o", "r", "m", "-", "i", "d", "s">>) =>
              cfg.FORM_IDS = FormIdsValue(None, argv)

=============================================================================
